---- MODULE Spec2Model ----
(***************************************************************************)
(* Avito-Parser: the fetch resilience layer (CurlClient / PlaywrightClient *)
(* / CookieStore in core/clients.py), the extraction pipeline              *)
(* (ListingListProcessor in core/parser.py), the run-once / parse-file    *)
(* commands of src/main.py with their upsert into parsed_listings, the     *)
(* scheduler job of services/worker.py, the chat handlers that change the  *)
(* target url and start a run (bot/runner.py), the debug output of         *)
(* core/dispatcher.py and two units of work on one SQLite file             *)
(* (database/db.py), as a state machine.                                   *)
(*                                                                         *)
(* Durations are in tenths of a second.  A URL is a record                 *)
(* [scheme, host, path]: "https://h/p" has scheme "https", the             *)
(* protocol-relative "//h/p" has an empty scheme and host h, the           *)
(* root-relative "/p" has an empty scheme and an empty host.               *)
(***************************************************************************)
EXTENDS Integers, Sequences, FiniteSets, TLC

VARIABLES
    pc,           \* position of the run: see the actions
    cmd,          \* "run-once-curl" | "run-once-playwright" | "parse-file"
    settings,     \* config.settings.Settings, the fields the clients read
    store,        \* the cookie file behind CookieStore
    session,      \* CurlClient.session.cookies
    requests,     \* session.get calls issued by CurlClient.get
    responses,    \* responses received by CurlClient.get
    retryable,    \* how many of them had a status in (403, 429, 503)
    lastStatus,   \* status_code of the last response, 0 before the first
    lastBody,     \* resp.text of the response CurlClient.get returned from
    sleeps,       \* the time.sleep durations of CurlClient.get, in order
    uas,          \* user-agent of the last two attempts, newest last
    browserCalls, \* PlaywrightClient.get invocations
    restored,     \* cookies put into the browser context before page.goto
    context,      \* cookies of the browser context
    markers,      \* which wait_for_selector markers appeared
    challenge,    \* outcome of the reCAPTCHA step
    content,      \* page.content() of the browser session
    html,         \* the markup the run works on (fetched, or read from file)
    failure,      \* the exception that ended the fetch, "" if none
    siblings,     \* parse-file: the files next to the html file
    items,        \* the candidates handed to the reconciliation loop
    scriptCalls,  \* _extract_from_scripts invocations on html
    lenientCalls, \* html.parser passes of extract_all on html
    sweepCalls,   \* _fallback_regex_sweep invocations
    db,           \* rows of parsed_listings
    saved,        \* the run's saved counter
    result,       \* what main logged last: "" | "saved" | "failed" |
                  \* "persist_failed"
    clock,        \* datetime.utcnow() of the run, in runs
    prev,         \* the run before this one: its items, how it ended, and
                  \* the rows it left (the rows this run started from)
    reply,        \* what on_run_parser answered in the chat, "" if nothing
    text,         \* the text of a card's price element / params part
    fields,       \* the fields extract_from_soup derived from text
    dumps,        \* the run's surroundings for debug output: the external
                  \* sink ("none" | "ok" | "raises") and the Trash directory
                  \* ("ok" | "failing")
    txs,          \* the units of work of runs that persist at the same
                  \* time, <<>> when the runs follow one another
    target        \* TARGET_URL: in os.environ, as the default of
                  \* Settings.target_url, as last accepted in the chat, and
                  \* what each run started from the chat fetched

fetchVars == <<store, session, requests, responses, retryable, lastStatus,
               lastBody, sleeps, uas, browserCalls, restored, context,
               markers, challenge, content, failure>>
extractVars == <<items, scriptCalls, lenientCalls, sweepCalls>>
historyVars == <<clock, prev, reply>>
\* what no step of a run assigns: the configuration, and the state of the
\* operations that are followed on their own
configVars == <<settings, text, fields, target, dumps, txs>>
vars == <<pc, cmd, configVars, fetchVars, html, siblings, extractVars, db, saved, result,
          historyVars>>

----------------------------------------------------------------------------
(* Bounds and small input sets *)

\* jitter values random.uniform(0, 0.5) is sampled at, in tenths of a second
Jitters == {0, 5}
\* the Set-Cookie headers a response may carry, as sets of cookie names
SetCookies == {{}, {"ft"}}
\* the entries a user-agent list file may hold
UserAgents == {"ua1", "ua2"}
\* an explicitly configured USER_AGENT
PinnedUA == "uaPinned"
\* no user-agent chosen: the header set keeps its baseline value
NoUA == ""
\* status codes the server answers with
Statuses == {200, 201, 204, 403, 500, 503}

----------------------------------------------------------------------------
(* CookieStore *)

\* CookieStore.load: the file's content, or the default when it is missing
EmptyStore == [cookies |-> {}, cookie_dict |-> {}]

\* CookieStore.save: the file is rewritten with exactly the given mapping;
\* a key the mapping lacks reads back as empty
CookieStore_save(mapping) ==
    [cookies     |-> IF "cookies" \in DOMAIN mapping THEN mapping.cookies ELSE {},
     cookie_dict |-> IF "cookie_dict" \in DOMAIN mapping THEN mapping.cookie_dict ELSE {}]

\* CurlClient.__init__: the dict format is preferred, else the list format
CurlClient_init(stored) ==
    IF stored.cookie_dict # {} THEN stored.cookie_dict ELSE stored.cookies

----------------------------------------------------------------------------
(* CurlClient.get *)

max_attempts_six == 5 + 1

max_attempts == 5

SuccessStatus(s) == s \in {200, 201}

RetryStatus(s) == s \in {403, 429, 503}

raise_for_status_never(s) == FALSE

\* Response.raise_for_status raises for a status that is not ok (>= 400)
raise_for_status(s) == s >= 400

Min(a, b) == IF a < b THEN a ELSE b

backoff_uncapped(attempt, jitter) == 10 * (2 ^ attempt) + jitter

\* backoff = min(10, 2 ** attempt) + random.uniform(0, 0.5)
backoff(attempt, jitter) == Min(100, 10 * (2 ^ attempt)) + jitter

ua_choices_list_first(s) ==
    IF s.ua_list # {} THEN s.ua_list
    ELSE IF s.user_agent # "" THEN {s.user_agent}
    ELSE {NoUA}

\* UA selection: the configured one, else a pick from the list, else none
ua_choices(s) ==
    IF s.user_agent # "" THEN {s.user_agent}
    ELSE IF s.ua_list # {} THEN s.ua_list
    ELSE {NoUA}

persist_cookies_on_success(status, cookie_dict, old) ==
    IF SuccessStatus(status) THEN CookieStore_save([cookie_dict |-> cookie_dict]) ELSE old

\* "persist cookies": done after every response, whatever its status
persist_cookies(status, cookie_dict, old) ==
    CookieStore_save([cookie_dict |-> cookie_dict])

----------------------------------------------------------------------------
(* URLs *)

BaseHost == "www.avito.ru"

Url(scheme, host, path) == [scheme |-> scheme, host |-> host, path |-> path]

\* an empty or missing href / url / src (falsy in the code)
EmptyUrl == Url("", "", <<>>)

\* a JSON value that is not a string where a URL is expected (truthy)
NonStringUrl == Url("<number>", "", <<>>)

\* str.startswith("/"): root-relative and protocol-relative forms
starts_with_slash(u) == u # EmptyUrl /\ u.scheme = ""

\* str.startswith("//"): the protocol-relative form
starts_with_2slash(u) == u # EmptyUrl /\ u.scheme = "" /\ u.host # ""

\* base_url.rstrip("/") + u, with base_url = "https://www.avito.ru"
join_base(u) ==
    Url("https", BaseHost, IF u.host = "" THEN u.path ELSE <<"", u.host>> \o u.path)

\* "https:" + u
add_https(u) == Url("https", u.host, u.path)

\* url resolution of hrefs and script urls: only a leading "/" is looked at
resolve_url(u) == IF starts_with_slash(u) THEN join_base(u) ELSE u

\* src normalisation of card images
resolve_src(u) ==
    IF starts_with_2slash(u) THEN add_https(u)
    ELSE IF starts_with_slash(u) THEN join_base(u)
    ELSE u

----------------------------------------------------------------------------
(* Sequence helpers *)

Range(s) == {s[i] : i \in 1..Len(s)}

RECURSIVE Flatten(_)
Flatten(ss) == IF ss = <<>> THEN <<>> ELSE Head(ss) \o Flatten(Tail(ss))

SeqsUpTo(S, n) == UNION {[1..k -> S] : k \in 0..n}

----------------------------------------------------------------------------
(* ListingListProcessor: normalisation of a card's texts *)

\* a text is a sequence of characters; the rouble sign and the words the
\* params line is told by ('Комиссия', 'Залог') stand as one element each
DigitChars == <<"0", "1", "2", "3", "4", "5", "6", "7", "8", "9">>

\* \d
is_digit(ch) == \E d \in 1..10 : DigitChars[d] = ch
digit_value(ch) == (CHOOSE d \in 1..10 : DigitChars[d] = ch) - 1

\* int() of a string of digits
RECURSIVE int_from(_, _)
int_from(digits, acc) ==
    IF digits = <<>> THEN acc
    ELSE int_from(Tail(digits), acc * 10 + digit_value(Head(digits)))

int(digits) == int_from(digits, 0)

\* the None a helper returns
None == -1

\* self._space_re.sub(" ", text): every run of whitespace becomes one space
RECURSIVE collapse_spaces(_)
collapse_spaces(t) ==
    IF Len(t) < 2 THEN t
    ELSE IF t[1] = " " /\ t[2] = " " THEN collapse_spaces(Tail(t))
    ELSE <<t[1]>> \o collapse_spaces(Tail(t))

\* str.strip() of a text whose whitespace runs are single spaces
strip(t) ==
    LET l == IF t # <<>> /\ Head(t) = " " THEN Tail(t) ELSE t
    IN  IF l # <<>> /\ l[Len(l)] = " " THEN SubSeq(l, 1, Len(l) - 1) ELSE l

normalize(t) == strip(collapse_spaces(t))

extract_digits_first_run(t) ==
    LET starts == {i \in 1..Len(t) : is_digit(t[i])}
        i0     == CHOOSE i \in starts : \A j \in starts : i <= j
        ends   == {e \in i0..Len(t) : \A k \in i0..e : is_digit(t[k])}
        e0     == CHOOSE e \in ends : \A j \in ends : j <= e
    IN  IF starts = {} THEN None ELSE int(SubSeq(t, i0, e0))

\* _extract_digits: re.sub(r"[^\d]", "", text), then int
extract_digits(t) ==
    LET digits == SelectSeq(t, is_digit)
    IN  IF t = <<>> \/ digits = <<>> THEN None ELSE int(digits)

\* where the greedy \d+ that starts at i ends
RECURSIVE run_end(_, _)
run_end(t, i) == IF i < Len(t) /\ is_digit(t[i + 1]) THEN run_end(t, i + 1) ELSE i

\* the start positions at which (\d+)% matches
percent_matches(t) ==
    {i \in 1..Len(t) : is_digit(t[i]) /\ run_end(t, i) < Len(t) /\ t[run_end(t, i) + 1] = "%"}

\* text.lower()
lower_text(t) == [i \in 1..Len(t) |-> IF t[i] = "Komissiya" THEN "komissiya" ELSE t[i]]

\* \s*: the first position from i on that holds no whitespace
RECURSIVE skip_spaces(_, _)
skip_spaces(t, i) == IF i <= Len(t) /\ t[i] = " " THEN skip_spaces(t, i + 1) ELSE i

\* the start positions at which комиссия\s*(\d+) matches
keyword_matches(t) ==
    {i \in 1..Len(t) : /\ t[i] = "komissiya"
                       /\ skip_spaces(t, i + 1) <= Len(t)
                       /\ is_digit(t[skip_spaces(t, i + 1)])}

\* re.search returns the leftmost match
leftmost(S) == CHOOSE i \in S : \A j \in S : i <= j

\* _extract_percentage
extract_percentage(t) ==
    IF t = <<>> THEN None
    ELSE IF percent_matches(t) # {}
    THEN int(SubSeq(t, leftmost(percent_matches(t)), run_end(t, leftmost(percent_matches(t)))))
    ELSE IF keyword_matches(lower_text(t)) # {}
    THEN int(SubSeq(t, skip_spaces(t, leftmost(keyword_matches(lower_text(t))) + 1),
                    run_end(t, skip_spaces(t, leftmost(keyword_matches(lower_text(t))) + 1))))
    ELSE None

\* str.startswith
starts_with(t, word) == t # <<>> /\ Head(t) = word

\* extract_from_soup on one card: the price element, and one part of the
\* params line
card_fields(t) ==
    LET part == normalize(t)
    IN  [price_raw      |-> part,
         price_value    |-> extract_digits(part),
         bail_raw       |-> IF starts_with(part, "Zalog") THEN part ELSE <<>>,
         bail_value     |-> IF starts_with(part, "Zalog") THEN extract_digits(part) ELSE None,
         commission_raw |-> IF starts_with(part, "Komissiya") THEN part ELSE <<>>,
         commission     |-> IF starts_with(part, "Komissiya") THEN extract_percentage(part)
                            ELSE None]

----------------------------------------------------------------------------
(* ListingListProcessor: tier 1, structural cards *)

\* an ExtractionCandidate: the keys the reconciler reads
Candidate(title, url, images) == [title |-> title, url |-> url, images |-> images]

\* the card's image loop: "if src and src not in imgs", then normalise, append
RECURSIVE card_images(_, _)
card_images(srcs, imgs) ==
    IF srcs = <<>> THEN imgs
    ELSE LET src == Head(srcs) IN
         IF src # EmptyUrl /\ src \notin Range(imgs)
         THEN card_images(Tail(srcs), Append(imgs, resolve_src(src)))
         ELSE card_images(Tail(srcs), imgs)

\* one card node -> item; a card without a title link has neither key
card_item(card) ==
    IF card.a.present
    THEN Candidate(card.a.title, resolve_url(card.a.href), card_images(card.imgs, <<>>))
    ELSE Candidate("", EmptyUrl, card_images(card.imgs, <<>>))

has_title_or_url_always(item) == TRUE

\* any(item.get(k) for k in ("title", "url"))
has_title_or_url(item) == item.title # "" \/ item.url # EmptyUrl

\* soup.select of the primary group, else of the broader group
select_card_nodes(doc) == IF doc.primary # <<>> THEN doc.primary ELSE doc.fallback

\* page-level title links -> items; a link without href is skipped
link_items(links) ==
    LET kept == SelectSeq(links, LAMBDA a : a.href # EmptyUrl)
    IN  [i \in 1..Len(kept) |-> Candidate(kept[i].title, resolve_url(kept[i].href), <<>>)]

extract_from_soup(doc) ==
    LET nodes == select_card_nodes(doc)
        built == [i \in 1..Len(nodes) |-> card_item(nodes[i])]
        cards_local == SelectSeq(built, has_title_or_url)
    IN  IF cards_local # <<>> THEN cards_local ELSE link_items(doc.links)

----------------------------------------------------------------------------
(* ListingListProcessor: tier 2, structured data and inline client state *)

\* one offer / flat object / state element -> candidate; images are taken
\* as they are
script_candidate(obj) == Candidate(obj.name, resolve_url(obj.url), obj.image)

\* url.startswith on a truthy value that is not a string: AttributeError
url_raises(obj) == obj.url = NonStringUrl

\* candidates of one ld+json block: the @graph offers, then the flat payloads
block_candidates(block) ==
    IF block.kind = "bad" THEN <<>>
    ELSE LET objs  == block.offers \o block.objs
             built == [i \in 1..Len(objs) |-> script_candidate(objs[i])]
         IN  SelectSeq(built, has_title_or_url)

block_raises(block) ==
    block.kind # "bad" /\ \E o \in Range(block.offers \o block.objs) : url_raises(o)

\* a value of json.loads: a dict is a sequence of entries, in document order
JNull == [kind |-> "null"]
JStr(str) == [kind |-> "str", str |-> str]
JUrl(url) == [kind |-> "url", url |-> url]
JList(elems) == [kind |-> "list", elems |-> elems]
Entry(key, value) == [key |-> key, value |-> value]
JDict(entries) == [kind |-> "dict", entries |-> entries]

\* dict.get
get(node, key) ==
    LET hits == {i \in 1..Len(node.entries) : node.entries[i].key = key}
    IN  IF hits = {} THEN JNull ELSE node.entries[CHOOSE i \in hits : \A j \in hits : i <= j].value

\* k.lower() on the keys of the model
lower_key(key) == IF key = "Items" THEN "items" ELSE key

\* walk(node): the elements of every list under a key items / list / docs;
\* a list that is yielded is not walked itself
RECURSIVE walk(_)
walk(node) ==
    IF node.kind = "dict"
    THEN Flatten([i \in 1..Len(node.entries) |->
                    IF lower_key(node.entries[i].key) \in {"items", "list", "docs"}
                       /\ node.entries[i].value.kind = "list"
                    THEN node.entries[i].value.elems
                    ELSE walk(node.entries[i].value)])
    ELSE IF node.kind = "list"
    THEN Flatten([i \in 1..Len(node.elems) |-> walk(node.elems[i])])
    ELSE <<>>

\* it.get("title") or it.get("name"), it.get("url") or it.get("uri"), and
\* the strings of it.get("images")
state_object(it) ==
    LET title == IF get(it, "title").kind = "str" /\ get(it, "title").str # ""
                 THEN get(it, "title").str
                 ELSE IF get(it, "name").kind = "str" THEN get(it, "name").str ELSE ""
        url   == IF get(it, "url").kind = "url" /\ get(it, "url").url # EmptyUrl
                 THEN get(it, "url").url
                 ELSE IF get(it, "uri").kind = "url" THEN get(it, "uri").url ELSE EmptyUrl
        pics  == IF get(it, "images").kind = "list"
                 THEN SelectSeq(get(it, "images").elems, LAMBDA e : e.kind = "url")
                 ELSE <<>>
    IN  [name |-> title, url |-> url, image |-> [i \in 1..Len(pics) |-> pics[i].url]]

\* the candidates of one parsed state: "if not isinstance(it, dict): continue"
blob_candidates(state) ==
    LET dicts == SelectSeq(walk(state), LAMBDA it : it.kind = "dict")
        built == [i \in 1..Len(dicts) |-> script_candidate(state_object(dicts[i]))]
    IN  SelectSeq(built, has_title_or_url)

\* the inline-state heuristic: the first blob that parses and yields a
\* candidate ends the scan
RECURSIVE state_candidates(_)
state_candidates(blobs) ==
    IF blobs = <<>> THEN <<>>
    ELSE LET blob  == Head(blobs)
             found == IF blob.parses THEN blob_candidates(blob.state) ELSE <<>>
         IN  IF found # <<>> THEN found ELSE state_candidates(Tail(blobs))

extract_from_scripts(doc) ==
    LET ld == Flatten([i \in 1..Len(doc.ld) |-> block_candidates(doc.ld[i])])
    IN  IF \E i \in 1..Len(doc.ld) : block_raises(doc.ld[i])
        THEN [raised |-> TRUE, items |-> <<>>]
        ELSE [raised |-> FALSE,
              items  |-> IF ld # <<>> THEN ld ELSE state_candidates(doc.state)]

----------------------------------------------------------------------------
(* ListingListProcessor.extract_all *)

\* tier 1: the lxml pass, and the html.parser pass when it gave no item
tier1_cards(markup) ==
    LET cards == extract_from_soup(markup.strict)
    IN  IF cards # <<>> THEN cards ELSE extract_from_soup(markup.lenient)

\* how often "if not cards" lets the html.parser pass run
lenient_passes(markup) == IF extract_from_soup(markup.strict) = <<>> THEN 1 ELSE 0

extract_all_exclusive(markup) ==
    LET cards    == tier1_cards(markup)
        scripted == IF cards = <<>> THEN extract_from_scripts(markup.strict)
                    ELSE [raised |-> FALSE, items |-> <<>>]
    IN  [raised       |-> scripted.raised,
         script_calls |-> IF cards = <<>> THEN 1 ELSE 0,
         lenient_calls |-> lenient_passes(markup),
         items        |-> IF scripted.raised THEN <<>> ELSE cards \o scripted.items]

\* cards + scripted; the scripts are always read from the lxml tree
extract_all(markup) ==
    LET cards    == tier1_cards(markup)
        scripted == extract_from_scripts(markup.strict)
    IN  [raised       |-> scripted.raised,
         script_calls |-> 1,
         lenient_calls |-> lenient_passes(markup),
         items        |-> IF scripted.raised THEN <<>> ELSE cards \o scripted.items]

----------------------------------------------------------------------------
(* ListingListProcessor._fallback_regex_sweep *)

\* the generic "read more" label the sweep skips ('подробнее')
ReadMoreLabel == "podrobnee"

\* str.lower on the titles of the model
lower(t) == IF t = "Podrobnee" THEN "podrobnee" ELSE t

title_kept(t) == ~(t = "" \/ Len(t) < 3 \/ lower(t) = ReadMoreLabel)

dedupe_by_url_adjacent(its, seen) ==
    IF Len(its) < 2 THEN its
    ELSE <<Head(its)>> \o
         Flatten([i \in 1..(Len(its) - 1) |->
                     IF its[i].url = its[i + 1].url THEN <<>> ELSE <<its[i + 1]>>])

\* "Deduplicate by URL while preserving order"
RECURSIVE dedupe_by_url(_, _)
dedupe_by_url(its, seen) ==
    IF its = <<>> THEN <<>>
    ELSE IF Head(its).url \notin seen
         THEN <<Head(its)>> \o dedupe_by_url(Tail(its), seen \cup {Head(its).url})
         ELSE dedupe_by_url(Tail(its), seen)

\* anchors whose href holds an /item/ segment, in document order
fallback_regex_sweep(raw) ==
    LET kept == SelectSeq(raw, LAMBDA a : title_kept(a.title))
        its  == [i \in 1..Len(kept) |-> Candidate(kept[i].title, resolve_url(kept[i].href), <<>>)]
    IN  dedupe_by_url(its, {})

----------------------------------------------------------------------------
(* Reconciliation of a batch: seen_urls of run-once and parse-file *)

has_images_never(c) == FALSE

\* bool(data.get("images"))
has_images(c) == c.images # <<>>

reconcile_step_keeps_empty_url(seen, data) ==
    IF \E i \in 1..Len(seen) : seen[i].url = data.url
    THEN [i \in 1..Len(seen) |->
             IF seen[i].url = data.url /\ has_images(data) /\ ~has_images(seen[i])
             THEN data ELSE seen[i]]
    ELSE Append(seen, data)

\* one iteration of "for data in items": seen is seen_urls.values(), kept in
\* insertion order
reconcile_step(seen, data) ==
    IF data.url = EmptyUrl THEN seen
    ELSE IF \E i \in 1..Len(seen) : seen[i].url = data.url
         THEN [i \in 1..Len(seen) |->
                  IF seen[i].url = data.url /\ has_images(data) /\ ~has_images(seen[i])
                  THEN data ELSE seen[i]]
         ELSE Append(seen, data)

RECURSIVE reconcile_from(_, _)
reconcile_from(seen, its) ==
    IF its = <<>> THEN seen
    ELSE reconcile_from(reconcile_step(seen, Head(its)), Tail(its))

reconcile(its) == reconcile_from(<<>>, its)

----------------------------------------------------------------------------
(* parsed_listings: the upsert of the reconciled batch *)

\* a ParsedListing row: the columns the model follows
Row(data, created, updated) ==
    [url |-> data.url, title |-> data.title, images |-> data.images,
     created_at |-> created, updated_at |-> updated]

\* the columns of a row other than its timestamps
Fields(r) == [url |-> r.url, title |-> r.title, images |-> r.images]

\* the unit of work emits an UPDATE, and onupdate=datetime.utcnow fires, only
\* for an object one of whose attributes was set to a different value
net_change(obj, data) == obj.title # data.title \/ obj.images # data.images

overwrite_keeps_images(obj, data, now) ==
    LET kept == [data EXCEPT !.images = IF data.images = <<>> THEN obj.images ELSE @]
    IN  Row(kept, obj.created_at, IF net_change(obj, kept) THEN now ELSE obj.updated_at)

\* the else branch of the upsert: every field of the stored object is
\* assigned from the winner, whatever the object held
overwrite(obj, data, now) ==
    Row(data, obj.created_at, IF net_change(obj, data) THEN now ELSE obj.updated_at)

upsert_replaces(rows, data, now) ==
    {r \in rows : r.url # data.url} \cup {Row(data, now, now)}

\* one pass of "for data in seen_urls.values()": query by url, then either
\* session.add of a new object or assignment of every field
upsert(rows, data, now) ==
    IF \E r \in rows : r.url = data.url
    THEN {IF r.url = data.url THEN overwrite(r, data, now) ELSE r : r \in rows}
    ELSE rows \cup {Row(data, now, now)}

\* the upsert loop over the winners, as the commit leaves the table
RECURSIVE upsert_all(_, _, _)
upsert_all(rows, winners, now) ==
    IF winners = <<>> THEN rows
    ELSE upsert_all(upsert(rows, Head(winners), now), Tail(winners), now)

\* the positions of the batch whose record is new to the table
inserts(rows, winners) ==
    {k \in 1..Len(winners) : ~\E r \in rows : r.url = winners[k].url}

\* where a run-once persistence can raise: the session.flush() after each
\* session.add, and the commit that ends get_session (position Len + 1)
flush_points(rows, winners) == inserts(rows, winners) \cup {Len(winners) + 1}

\* parse-file adds without flushing: only the commit can raise
commit_point(rows, winners) == {Len(winners) + 1}

\* "with get_session() as session": commit when the body ends (k = 0), or
\* rollback of the whole unit of work when the k-th write raises; saved has
\* then counted the writes before it
get_session(rows, winners, now, k) ==
    IF k = 0
    THEN [db |-> upsert_all(rows, winners, now), saved |-> Len(winners), result |-> "saved"]
    ELSE [db |-> rows, saved |-> k - 1, result |-> "persist_failed"]

----------------------------------------------------------------------------
(* Inputs: markup, as the two parsers and the regex see it *)

MaxCards == 2
MaxBlocks == 2

UrlA_root == Url("", "", <<"item", "a">>)
UrlA == Url("https", BaseHost, <<"item", "a">>)
UrlB == Url("https", BaseHost, <<"item", "b">>)
ImgProto == Url("", "cdn.avito.st", <<"p.jpg">>)
ImgAbs == Url("https", "cdn.avito.st", <<"p.jpg">>)

Anchor(title, href) == [present |-> TRUE, title |-> title, href |-> href]
NoAnchor == [present |-> FALSE, title |-> "", href |-> EmptyUrl]

CardNode(a, imgs) == [a |-> a, imgs |-> imgs]
CardNodes ==
    {CardNode(NoAnchor, <<>>),
     CardNode(Anchor("Flat", UrlA_root), <<>>),
     CardNode(Anchor("Flat", UrlA_root), <<ImgProto, ImgAbs>>),
     CardNode(Anchor("Room", UrlB), <<>>)}

LdObj(name, url, image) == [name |-> name, url |-> url, image |-> image]
Block(kind, offers, objs) == [kind |-> kind, offers |-> offers, objs |-> objs]
BadBlock == Block("bad", <<>>, <<>>)
GraphB == Block("json", <<LdObj("Room", UrlB, <<ImgAbs>>)>>, <<LdObj("", EmptyUrl, <<>>)>>)
FlatA == Block("json", <<>>, <<LdObj("Flat", UrlA_root, <<>>)>>)
TypeBlock == Block("json", <<>>, <<LdObj("Room", NonStringUrl, <<>>)>>)
\* an offer whose image list repeats a protocol-relative entry
OfferRel == Block("json", <<LdObj("Room", UrlB, <<ImgProto, ImgProto>>)>>, <<>>)
LdBlocks == {BadBlock, GraphB, FlatA, TypeBlock, OfferRel}

\* a script that holds __INITIAL_STATE__: whether its braces parse, and the
\* value they parse to
Blob(parses, state) == [parses |-> parses, state |-> state]
Listing(title, url) == JDict(<<Entry("title", JStr(title)), Entry("url", JUrl(url))>>)
StateBlobs ==
    {<<>>,
     <<Blob(FALSE, JNull),
       Blob(TRUE, JDict(<<Entry("items", JList(<<Listing("Room", UrlB)>>))>>))>>}

Doc(primary, fallback, links, ld, state) ==
    [primary |-> primary, fallback |-> fallback, links |-> links, ld |-> ld, state |-> state]
EmptyDoc == Doc(<<>>, <<>>, <<>>, <<>>, <<>>)

Docs ==
    {Doc(p, f, l, b, s) :
        p \in SeqsUpTo(CardNodes, MaxCards),
        f \in {<<>>, <<CardNode(Anchor("Flat", UrlA_root), <<>>)>>},
        l \in {<<>>, <<Anchor("Flat", UrlA_root), Anchor("", EmptyUrl)>>},
        b \in SeqsUpTo(LdBlocks, MaxBlocks),
        s \in StateBlobs}

\* anchors the regex of the sweep matches in the raw text
RawAnchors == {<<>>, <<Anchor("Flat", UrlA_root), Anchor("ab", UrlB), Anchor("Flat2", UrlA_root)>>}

Markup(strict, lenient, raw) == [strict |-> strict, lenient |-> lenient, raw |-> raw]

\* well-formed markup parses alike; a malformed dump hides its cards from
\* the strict parser
Markups ==
    {Markup(IF malformed THEN Doc(<<>>, <<>>, <<>>, d.ld, d.state) ELSE d, d, r) :
        d \in Docs, r \in RawAnchors, malformed \in BOOLEAN}

\* the pages a run meets
PageEmpty == Markup(EmptyDoc, EmptyDoc, <<>>)
PageCardLd ==
    LET d == Doc(<<CardNode(Anchor("Flat", UrlA_root), <<ImgProto>>)>>, <<>>, <<>>, <<GraphB>>, <<>>)
    IN  Markup(d, d, <<Anchor("Flat", UrlA_root)>>)
PageHidden == Markup(EmptyDoc, EmptyDoc, <<Anchor("Flat", UrlA_root), Anchor("Flat2", UrlA_root)>>)
PageTypeError ==
    LET d == Doc(<<>>, <<>>, <<>>, <<TypeBlock>>, <<>>)
    IN  Markup(d, d, <<>>)
Pages == {PageEmpty, PageCardLd, PageHidden, PageTypeError}

NoMarkup == [absent |-> TRUE]

----------------------------------------------------------------------------
(* Initial states *)

Settings(ua, list, key) == [user_agent |-> ua, ua_list |-> list, anticaptcha_key |-> key]

\* USER_AGENT set or not, the list file missing, short or long, ANTICAPTCHA_KEY
\* set or not
SettingsSet ==
    {Settings("", {}, FALSE),
     Settings("", {"ua1"}, TRUE),
     Settings("", UserAgents, TRUE),
     Settings(PinnedUA, UserAgents, TRUE)}

\* the cookie file before the run: missing, or left by either client
InitialStores ==
    {EmptyStore,
     CookieStore_save([cookie_dict |-> {"sid"}]),
     CookieStore_save([cookies |-> {"sid"}])}

NoMarkers == [waited |-> FALSE, title |-> FALSE, container |-> FALSE]
NoSiblings == [pretty |-> NoMarkup, scripts |-> <<>>, txt |-> NoMarkup]

SiblingSets ==
    {[pretty |-> p, scripts |-> j, txt |-> t] :
        p \in {NoMarkup, PageCardLd},
        j \in {<<>>, <<LdObj("Room", UrlB, <<>>)>>},
        t \in {NoMarkup, PageHidden}}

\* everything a fetch has not touched yet
FetchInit ==
    /\ requests = 0 /\ responses = 0 /\ retryable = 0 /\ lastStatus = 0
    /\ lastBody = NoMarkup
    /\ sleeps = <<>> /\ uas = <<>> /\ browserCalls = 0
    /\ restored = {} /\ context = {}
    /\ markers = NoMarkers /\ challenge = "none"
    /\ content = NoMarkup /\ failure = ""

\* the table before the run: a listing an earlier run saved
StoredRows == {Row(Candidate("Old", UrlA, <<>>), 0, 0)}

\* no run of this process came before: only the rows it finds
NoRun(rows) == [items |-> <<>>, result |-> "", db |-> rows]

\* no sink is configured and the Trash directory can be written
NoDumpFailure == [sink |-> "none", trash |-> "ok"]

\* the search page the process was started with
StartUrl == Url("https", BaseHost, <<"moskva">>)

\* TARGET_URL as the process sees it after the import of config.settings
Target(url) == [environ |-> url, default |-> url, accepted |-> EmptyUrl, runs |-> <<>>]

\* no card looked at yet
NoFields == [price_raw |-> <<>>, price_value |-> None, bail_raw |-> <<>>, bail_value |-> None,
             commission_raw |-> <<>>, commission |-> None]

RunInit ==
    /\ items = <<>> /\ scriptCalls = 0 /\ lenientCalls = 0 /\ sweepCalls = 0
    /\ saved = 0 /\ result = ""
    /\ clock = 1 /\ reply = ""
    /\ text = <<>> /\ fields = NoFields
    /\ target = Target(StartUrl)
    /\ dumps = NoDumpFailure
    /\ txs = <<>>

\* main() up to the first I/O of the chosen command: the clients are built
Init ==
    /\ cmd \in {"run-once-curl", "run-once-playwright", "parse-file"}
    /\ settings \in SettingsSet
    /\ store \in InitialStores
    /\ session = IF cmd = "run-once-curl" THEN CurlClient_init(store) ELSE {}
    /\ pc = CASE cmd = "run-once-curl" -> "curl"
              [] cmd = "run-once-playwright" -> "pw_open"
              [] OTHER -> "file"
    /\ html = NoMarkup
    /\ siblings = NoSiblings
    /\ db = StoredRows
    /\ prev = NoRun(StoredRows)
    /\ FetchInit
    /\ RunInit

----------------------------------------------------------------------------
(* CurlClient.get: one action per pass of the attempt loop *)

\* the user-agents of the last two attempts
push_ua(seen, ua) == IF Len(seen) = 2 THEN <<seen[2], ua>> ELSE Append(seen, ua)

browserVars == <<browserCalls, restored, context, markers, challenge, content>>
runVars == <<cmd, configVars, siblings, extractVars, db, saved, result, historyVars>>

\* session.get answers: cookies are persisted, then the status decides
CurlClient_get ==
    /\ pc = "curl"
    /\ \E ua \in ua_choices(settings), status \in Statuses,
          set \in SetCookies, jitter \in Jitters :
        LET attempt == requests + 1
            jar     == session \cup set
        IN  /\ requests' = attempt
            /\ responses' = responses + 1
            /\ uas' = push_ua(uas, ua)
            /\ session' = jar
            /\ store' = persist_cookies(status, jar, store)
            /\ lastStatus' = status
            /\ IF SuccessStatus(status)
               THEN /\ \E body \in Pages : lastBody' = body /\ html' = body
                    /\ pc' = "fetched"
                    /\ UNCHANGED <<sleeps, retryable, failure>>
               ELSE IF RetryStatus(status)
               THEN /\ sleeps' = Append(sleeps, backoff(attempt, jitter))
                    /\ retryable' = retryable + 1
                    \* loop exhausted: "falling back to Playwright"
                    /\ pc' = IF attempt < max_attempts THEN "curl" ELSE "pw_open"
                    /\ UNCHANGED <<lastBody, html, failure>>
               ELSE IF raise_for_status(status)
               THEN /\ failure' = "HTTPError"
                    /\ pc' = "fetch_failed"
                    /\ UNCHANGED <<lastBody, html, sleeps, retryable>>
               ELSE /\ \E body \in Pages : lastBody' = body /\ html' = body
                    /\ pc' = "fetched"
                    /\ UNCHANGED <<sleeps, retryable, failure>>
    /\ UNCHANGED <<browserVars, runVars>>

CurlClient_get_raises_retried ==
    /\ pc = "curl"
    /\ \E ua \in ua_choices(settings) : uas' = push_ua(uas, ua)
    /\ requests' = requests + 1
    /\ pc' = IF requests + 1 < max_attempts THEN "curl" ELSE "pw_open"
    /\ UNCHANGED <<store, session, responses, retryable, lastStatus, lastBody, sleeps,
                   html, failure, browserVars, runVars>>

\* session.get raises (timeout, connection, proxy): nothing catches it
CurlClient_get_raises ==
    /\ pc = "curl"
    /\ \E ua \in ua_choices(settings) : uas' = push_ua(uas, ua)
    /\ requests' = requests + 1
    /\ failure' = "RequestError"
    /\ pc' = "fetch_failed"
    /\ UNCHANGED <<store, session, responses, retryable, lastStatus, lastBody, sleeps,
                   html, browserVars, runVars>>

----------------------------------------------------------------------------
(* PlaywrightClient.get: one action per blocking wait *)

\* launch, new_context, "Load cookies if present", page.goto
PlaywrightClient_get_open ==
    /\ pc = "pw_open"
    /\ browserCalls' = browserCalls + 1
    /\ \E added \in BOOLEAN, goto \in BOOLEAN, set \in SetCookies :
        LET stored == store
            jar    == IF stored.cookies # {} /\ added THEN stored.cookies ELSE {}
        IN  /\ restored' = jar
            /\ IF goto
               THEN /\ context' = jar \cup set
                    /\ pc' = "pw_wait"
                    /\ UNCHANGED failure
               ELSE /\ failure' = "GotoError"
                    /\ pc' = "fetch_failed"
                    /\ UNCHANGED context
    /\ UNCHANGED <<store, session, requests, responses, retryable, lastStatus, lastBody, sleeps,
                   uas, markers, challenge, content, html, runVars>>

\* "Ensure list items are rendered": the second wait is outside any try
PlaywrightClient_get_wait ==
    /\ pc = "pw_wait"
    /\ \E title \in BOOLEAN, container \in BOOLEAN :
        \* the container marker is awaited only when the title marker timed out
        /\ title => ~container
        /\ markers' = [waited |-> TRUE, title |-> title, container |-> container]
        /\ IF title \/ container
           THEN pc' = "pw_challenge" /\ UNCHANGED failure
           ELSE pc' = "fetch_failed" /\ failure' = "TimeoutError"
    /\ UNCHANGED <<store, session, requests, responses, retryable, lastStatus, lastBody, sleeps,
                   uas, browserCalls, restored, context, challenge, content, html, runVars>>

\* solve_recaptcha_v2: None without a key or a solution, else the token
solve_recaptcha_v2(key, solver) ==
    IF ~key THEN "none"
    ELSE IF solver = "raises" THEN "raises"
    ELSE IF solver = "token" THEN "token"
    ELSE "none"

\* the scroll loop and the reCAPTCHA step, up to page.content()
challenge_step(key, detect, solver, inject) ==
    IF detect = "absent" THEN "no_widget"
    ELSE IF detect = "error" THEN "detect_error"
    ELSE LET token == solve_recaptcha_v2(key, solver)
         IN  IF token = "raises" THEN "solver_raises"
             ELSE IF token = "none" THEN (IF key THEN "unsolved" ELSE "no_credential")
             ELSE IF inject THEN "solved" ELSE "inject_fails"

PlaywrightClient_get_challenge ==
    /\ pc = "pw_challenge"
    /\ \E detect \in {"absent", "error", "found"},
          solver \in {"token", "unsolved", "raises"}, inject \in BOOLEAN :
        LET outcome == challenge_step(settings.anticaptcha_key, detect, solver, inject)
        IN  /\ challenge' = outcome
            /\ IF outcome = "solver_raises"
               THEN pc' = "fetch_failed" /\ failure' = "SolverError"
               ELSE pc' = "pw_finish" /\ UNCHANGED failure
    /\ UNCHANGED <<store, session, requests, responses, retryable, lastStatus, lastBody, sleeps,
                   uas, browserCalls, restored, context, markers, content, html, runVars>>

\* "Attempt to persist dynamic state/artifacts": mkdir, the writes and the
\* page evaluations all stand in one try whose handler passes
save_artifacts(env) == "returned"

\* page.content(), "Save cookies" (a failure is logged), the artifact
\* block, close, return
PlaywrightClient_get_finish ==
    /\ pc = "pw_finish"
    /\ \E body \in Pages, saveOk \in BOOLEAN :
        /\ content' = body
        /\ store' = IF saveOk THEN CookieStore_save([cookies |-> context]) ELSE store
        /\ IF save_artifacts(dumps) = "raised"
           THEN failure' = "ArtifactError" /\ pc' = "fetch_failed" /\ UNCHANGED html
           ELSE html' = body /\ pc' = "fetched" /\ UNCHANGED failure
    /\ UNCHANGED <<session, requests, responses, retryable, lastStatus, lastBody, sleeps, uas,
                   browserCalls, restored, context, markers, challenge, runVars>>

----------------------------------------------------------------------------
(* src/main.py: run-once *)

main_fetch_failed_continues ==
    /\ pc = "fetch_failed"
    /\ html' = PageEmpty
    /\ pc' = "fetched"
    /\ UNCHANGED <<cmd, configVars, fetchVars, siblings, extractVars, db, saved, result,
                   historyVars>>

\* html = client.get(...) raised: "except Exception: logger.exception"
main_fetch_failed ==
    /\ pc = "fetch_failed"
    /\ result' = "failed"
    /\ pc' = "done"
    /\ UNCHANGED <<cmd, configVars, fetchVars, html, siblings, extractVars, db, saved,
                   historyVars>>

dispatch_sink_unguarded(env) == IF env.sink = "raises" THEN "raised" ELSE "returned"

\* DataDispatcher.dispatch: print, the sink call in a try of its own, the
\* artifacts in one try; both handlers log and go on
dispatch(env) == "returned"

\* dispatcher.dispatch(html), init_db(), extract_all(html)
main_run_once_extract ==
    /\ pc = "fetched"
    /\ IF dispatch(dumps) = "raised"
       THEN /\ pc' = "done" /\ result' = "failed"
            /\ UNCHANGED <<items, scriptCalls, lenientCalls>>
       ELSE LET r == extract_all(html)
            IN  /\ scriptCalls' = scriptCalls + r.script_calls
                /\ lenientCalls' = lenientCalls + r.lenient_calls
                /\ items' = r.items
                /\ IF r.raised
                   THEN pc' = "done" /\ result' = "failed"
                   ELSE pc' = "persist" /\ UNCHANGED result
    /\ UNCHANGED <<cmd, configVars, fetchVars, html, siblings, sweepCalls, db, saved,
                   historyVars>>

\* "with get_session() as session": the batch is reconciled and upserted in
\* one unit of work; an exception reaches "except Exception" and is logged
main_run_once_persist ==
    /\ pc = "persist"
    /\ cmd # "parse-file"
    /\ \E k \in {0} \cup flush_points(db, reconcile(items)) :
        LET r == get_session(db, reconcile(items), clock, k)
        IN  /\ db' = r.db
            /\ saved' = r.saved
            /\ result' = r.result
    /\ pc' = "done"
    /\ UNCHANGED <<cmd, configVars, fetchVars, html, siblings, extractVars, historyVars>>

----------------------------------------------------------------------------
(* src/main.py: parse-file *)

\* the scripts.json recovery: the elements its walk() yields, mapped
recover_scripts_json(elems) ==
    LET built == [i \in 1..Len(elems) |-> script_candidate(elems[i])]
    IN  SelectSeq(built, has_title_or_url)

\* extract_all of a sibling file that exists
sibling_items(file) == IF file = NoMarkup THEN <<>> ELSE extract_all(file).items

sibling_raises(file) == file # NoMarkup /\ extract_all(file).raised

\* "Fallback: try page_pretty.html if nothing found"
after_pretty(its, sib) == IF its # <<>> THEN its ELSE sibling_items(sib.pretty)

\* "Fallback: try scripts.json heuristics": kept only when it recovers items
after_scripts_json(its, sib) ==
    IF its # <<>> THEN its
    ELSE recover_scripts_json(sib.scripts)

\* "Fallback: try page.txt plain dump"
after_txt(its, sib) == IF its # <<>> THEN its ELSE sibling_items(sib.txt)

\* the candidates parse-file holds when it reaches "Final fallback"
before_sweep(file, sib) ==
    after_txt(after_scripts_json(after_pretty(extract_all(file).items, sib), sib), sib)

\* "Final fallback: regex sweep over raw HTML", kept only when it finds items
after_sweep(its, file) == IF its # <<>> THEN its ELSE fallback_regex_sweep(file.raw)

\* an extract_all of the cascade raised: the outer except logs it
parse_file_raises(file, sib) ==
    \/ extract_all(file).raised
    \/ (extract_all(file).items = <<>> /\ sibling_raises(sib.pretty))
    \/ (after_scripts_json(after_pretty(extract_all(file).items, sib), sib) = <<>>
            /\ sibling_raises(sib.txt))

\* the fallback cascade of parse-file, from extract_all(html) to the sweep
parse_file_items(file, sib) ==
    [raised       |-> parse_file_raises(file, sib),
     script_calls |-> extract_all(file).script_calls,
     lenient_calls |-> extract_all(file).lenient_calls,
     sweep_calls  |-> IF before_sweep(file, sib) = <<>> THEN 1 ELSE 0,
     items        |-> after_sweep(before_sweep(file, sib), file)]

\* html_path.read_text(), then extraction with every fallback
main_parse_file_extract ==
    /\ pc = "file"
    /\ \E file \in Pages, sib \in SiblingSets :
        \E r \in {parse_file_items(file, sib)} :
            /\ html' = file
            /\ siblings' = sib
            /\ scriptCalls' = scriptCalls + r.script_calls
            /\ lenientCalls' = lenientCalls + r.lenient_calls
            /\ IF r.raised
               THEN /\ pc' = "done" /\ result' = "failed"
                    /\ UNCHANGED <<items, sweepCalls>>
               ELSE /\ pc' = "persist" /\ UNCHANGED result
                    /\ items' = r.items
                    /\ sweepCalls' = sweepCalls + r.sweep_calls
    /\ UNCHANGED <<cmd, configVars, fetchVars, db, saved, historyVars>>

\* the same unit of work without a flush in the loop
main_parse_file_persist ==
    /\ pc = "persist"
    /\ cmd = "parse-file"
    /\ \E k \in {0} \cup commit_point(db, reconcile(items)) :
        LET r == get_session(db, reconcile(items), clock, k)
        IN  /\ db' = r.db
            /\ saved' = r.saved
            /\ result' = r.result
    /\ pc' = "done"
    /\ UNCHANGED <<cmd, configVars, fetchVars, html, siblings, extractVars, historyVars>>

----------------------------------------------------------------------------
(* bot/runner.py: the chat handler that starts a run *)

\* how main() ends for its caller: the try block of each command ends in
\* "except Exception", which logs the exception and falls through
main_exit(res) == "returned"

\* on_run_parser: cli_main() with the bot's own argv (run-once, curl), then
\* the reply
on_run_parser ==
    /\ pc = "done"
    /\ cmd = "run-once-curl"
    /\ reply = ""
    /\ reply' = IF main_exit(result) = "raised" THEN "Launch error" ELSE "Parsing done"
    /\ UNCHANGED <<pc, cmd, configVars, fetchVars, html, siblings, extractVars, db, saved,
                   result, clock, prev>>

----------------------------------------------------------------------------
(* Runs one after another on the same table *)

MaxRuns == 3

\* the url worker_job fetches and files its record under
SiteRoot == Url("https", BaseHost, <<>>)

\* a structured-data object that names the site and has no url
TitleOnly == Block("json", <<>>, <<LdObj("Avito", EmptyUrl, <<>>)>>)

\* a page whose structured data yields a candidate without url
PageNoUrl ==
    LET d == Doc(<<CardNode(Anchor("Room", UrlB), <<>>)>>, <<>>, <<>>, <<TitleOnly>>, <<>>)
    IN  Markup(d, d, <<>>)

\* the pages the runs of a sequence meet
RunPages == Pages \cup {PageNoUrl}

\* what the run that ends leaves to the next one
Ended == [items |-> items, result |-> result, db |-> db]

\* a later invocation of main, from its start to the point where the markup
\* is in hand (run-once) or the file is about to be read (parse-file)
main_next_run ==
    /\ pc = "done"
    /\ clock < MaxRuns
    /\ clock' = clock + 1
    /\ prev' = Ended
    /\ \E c \in {"run-once-curl", "parse-file"} :
        /\ cmd' = c
        /\ IF c = "parse-file"
           THEN pc' = "file" /\ html' = NoMarkup
           ELSE pc' = "fetched" /\ html' \in RunPages
    /\ siblings' = NoSiblings
    /\ items' = <<>> /\ scriptCalls' = 0 /\ lenientCalls' = 0 /\ sweepCalls' = 0
    /\ saved' = 0 /\ result' = "" /\ reply' = ""
    /\ UNCHANGED <<configVars, fetchVars, db>>

\* services/worker.py: one scheduled job.  The record of the fetched page
\* is upserted under the site url in a unit of work of its own; the second
\* unit of work reads the undefined name title, so the job always ends in
\* "Worker job failed"
worker_job ==
    /\ pc = "done"
    /\ clock < MaxRuns
    /\ clock' = clock + 1
    /\ prev' = Ended
    /\ \E fetched \in BOOLEAN, title \in {"", "Avito"}, k \in {0, 2} :
        db' = IF fetched
              THEN get_session(db, <<Candidate(title, SiteRoot, <<>>)>>, clock + 1, k).db
              ELSE db
    /\ cmd' = "schedule"
    /\ html' = NoMarkup
    /\ siblings' = NoSiblings
    /\ items' = <<>> /\ scriptCalls' = 0 /\ lenientCalls' = 0 /\ sweepCalls' = 0
    /\ saved' = 0 /\ result' = "failed" /\ reply' = ""
    /\ UNCHANGED <<pc, configVars, fetchVars>>

----------------------------------------------------------------------------
(* bot/runner.py: the handlers that change the target url and start runs *)

\* validate_url: the scheme is http or https and a host follows
validate_url(url) == url.scheme \in {"http", "https"} /\ url.host # ""

\* what a user may send as the new url
UrlInputs ==
    {Url("https", BaseHost, <<"spb">>), Url("http", BaseHost, <<"kazan">>),
     Url("ftp", BaseHost, <<"spb">>)}

\* get_settings(): Settings() with the defaults of the class, which were
\* computed from os.environ when config.settings was imported
get_settings(t) == [target_url |-> t.default]

\* no handler is at work
BotIdle == pc = "idle" \/ (pc = "done" /\ reply # "")

\* handle_url_input with save_target_url: the .env file is rewritten and
\* os.environ["TARGET_URL"] is set, then the user is answered
handle_url_input ==
    /\ BotIdle
    /\ \E new_url \in UrlInputs, written \in BOOLEAN :
        IF ~validate_url(new_url)
        THEN reply' = "Bad URL" /\ UNCHANGED target
        ELSE IF written
        THEN /\ target' = [target EXCEPT !.environ = new_url, !.accepted = new_url]
             /\ reply' = "URL updated"
        ELSE reply' = "Save failed" /\ UNCHANGED target
    /\ UNCHANGED <<pc, cmd, settings, text, fields, dumps, txs, fetchVars, html, siblings, extractVars,
                   db, saved, result, clock, prev>>

\* the pages a run started from the chat meets
BotPages == {PageEmpty, PageCardLd}

\* on_run_parser up to the point where main has the markup in hand:
\* cli_main() reads settings.target_url; parser.error (SystemExit) ends the
\* handler when it is empty, else client.get(target_url) is called
on_run_parser_start ==
    /\ BotIdle
    /\ clock <= MaxRuns
    /\ clock' = clock + 1
    /\ LET target_url == get_settings(target).target_url
       IN  /\ target' = [target EXCEPT !.runs =
                            Append(@, [url |-> target_url, accepted |-> target.accepted])]
           /\ IF target_url = EmptyUrl
              THEN /\ reply' = "Parsing finished"
                   /\ UNCHANGED <<pc, cmd, html, siblings, extractVars, saved, result, prev>>
              ELSE /\ reply' = ""
                   /\ cmd' = "run-once-curl"
                   /\ pc' = "fetched"
                   /\ html' \in BotPages
                   /\ prev' = Ended
                   /\ siblings' = NoSiblings
                   /\ items' = <<>> /\ scriptCalls' = 0 /\ lenientCalls' = 0 /\ sweepCalls' = 0
                   /\ saved' = 0 /\ result' = ""
    /\ UNCHANGED <<settings, text, fields, dumps, txs, fetchVars, db>>

----------------------------------------------------------------------------
(* Two runs that persist at the same time on one SQLite file *)

\* the longest batch of a concurrent run
MaxBatch == 2

UrlC == Url("https", BaseHost, <<"item", "c">>)

\* the title run i found for every listing of its page
TitleOf(i) == IF i = 1 THEN "Flat" ELSE "Flat2"

\* seen_urls.values() of a run: no url twice
Batches(i) ==
    {[k \in 1..Len(us) |-> Candidate(TitleOf(i), us[k], <<>>)] :
        us \in {q \in SeqsUpTo({UrlA, UrlB, UrlC}, MaxBatch) :
                   /\ q # <<>>
                   /\ \A k, l \in 1..Len(q) : q[k] = q[l] => k = l}}

\* "with get_session() as session" entered: nothing looked up, no
\* transaction begun
Tx(batch) ==
    [batch |-> batch, pos |-> 1, phase |-> "query", absent |-> {}, lock |-> FALSE,
     result |-> ""]

\* run i has begun a write transaction and not ended it: no other
\* connection can write
holds_lock(t) == t.lock /\ t.phase # "done"

unique_never_violated(rows, url) == FALSE

\* ParsedListing.url is unique: an INSERT of a url the table holds fails
unique_violated(rows, url) == \E r \in rows : r.url = url

\* what the commit of a unit of work writes: the rows added where the
\* lookup found none, the assignments to the rows it found
RECURSIVE commit_writes(_, _, _, _)
commit_writes(rows, winners, absent, now) ==
    IF winners = <<>> THEN rows
    ELSE commit_writes(
             IF Head(winners).url \in absent
             THEN rows \cup {Row(Head(winners), now, now)}
             ELSE {IF r.url = Head(winners).url THEN overwrite(r, Head(winners), now) ELSE r :
                      r \in rows},
             Tail(winners), absent, now)

\* session.query(ParsedListing).filter_by(url=...).one_or_none() and, for a
\* row that exists, the assignment of its fields (autoflush is off: no SQL)
tx_query ==
    /\ pc = "concurrent"
    /\ \E i \in {1, 2} :
        LET t == txs[i]
        IN  /\ t.phase = "query" /\ t.pos <= Len(t.batch)
            /\ txs' = IF \E r \in db : r.url = t.batch[t.pos].url
                       THEN [txs EXCEPT ![i].pos = @ + 1]
                       ELSE [txs EXCEPT ![i].phase = "flush",
                                        ![i].absent = @ \cup {t.batch[t.pos].url}]
    /\ UNCHANGED <<pc, cmd, settings, text, fields, target, dumps, fetchVars, html, siblings,
                   extractVars, db, saved, result, historyVars>>

\* session.add(obj); session.flush(): the INSERT begins the write
\* transaction when no other connection holds one; IntegrityError is
\* followed by session.rollback() and raise
tx_flush ==
    /\ pc = "concurrent"
    /\ \E i \in {1, 2} :
        LET t == txs[i]
        IN  /\ t.phase = "flush"
            /\ ~holds_lock(txs[3 - i])
            /\ txs' = IF unique_violated(db, t.batch[t.pos].url)
                       THEN [txs EXCEPT ![i].phase = "done", ![i].lock = FALSE,
                                        ![i].result = "persist_failed"]
                       ELSE [txs EXCEPT ![i].phase = "query", ![i].lock = TRUE,
                                        ![i].pos = @ + 1]
    /\ UNCHANGED <<pc, cmd, settings, text, fields, target, dumps, fetchVars, html, siblings,
                   extractVars, db, saved, result, historyVars>>

\* the busy timeout runs out while the other connection writes:
\* OperationalError "database is locked", rollback and raise
tx_locked ==
    /\ pc = "concurrent"
    /\ \E i \in {1, 2} :
        LET t == txs[i]
        IN  /\ t.phase = "flush" \/ (t.phase = "query" /\ t.pos > Len(t.batch))
            /\ holds_lock(txs[3 - i])
            /\ txs' = [txs EXCEPT ![i].phase = "done", ![i].lock = FALSE,
                                   ![i].result = "persist_failed"]
    /\ UNCHANGED <<pc, cmd, settings, text, fields, target, dumps, fetchVars, html, siblings,
                   extractVars, db, saved, result, historyVars>>

\* the end of the with block: session.commit() writes the unit of work
tx_commit ==
    /\ pc = "concurrent"
    /\ \E i \in {1, 2} :
        LET t == txs[i]
        IN  /\ t.phase = "query" /\ t.pos > Len(t.batch)
            /\ ~holds_lock(txs[3 - i])
            /\ db' = commit_writes(db, t.batch, t.absent, i)
            /\ txs' = [txs EXCEPT ![i].phase = "done", ![i].lock = FALSE,
                                   ![i].result = "saved"]
    /\ UNCHANGED <<pc, cmd, settings, text, fields, target, dumps, fetchVars, html, siblings,
                   extractVars, saved, result, historyVars>>

----------------------------------------------------------------------------
(* Specifications *)

Next ==
    \/ CurlClient_get
    \/ CurlClient_get_raises
    \/ PlaywrightClient_get_open
    \/ PlaywrightClient_get_wait
    \/ PlaywrightClient_get_challenge
    \/ PlaywrightClient_get_finish
    \/ main_fetch_failed
    \/ main_run_once_extract
    \/ main_run_once_persist
    \/ main_parse_file_extract
    \/ main_parse_file_persist
    \/ on_run_parser

Spec == Init /\ [][Next]_vars

\* extract_all and the reconciliation on every markup of the input set
ExtractInit ==
    /\ cmd = "run-once-curl"
    /\ settings = Settings("", {}, FALSE)
    /\ store = EmptyStore
    /\ session = {}
    /\ pc = "fetched"
    /\ html \in Markups
    /\ siblings = NoSiblings
    /\ db = {}
    /\ prev = NoRun({})
    /\ FetchInit
    /\ RunInit

ExtractNext == main_run_once_extract \/ main_run_once_persist

ExtractSpec == ExtractInit /\ [][ExtractNext]_vars

\* runs of main and jobs of the scheduler, one after another, each taken up
\* where its fetch has returned
RunsInit ==
    /\ cmd \in {"run-once-curl", "parse-file"}
    /\ settings = Settings("", {}, FALSE)
    /\ store = EmptyStore
    /\ session = {}
    /\ pc = IF cmd = "parse-file" THEN "file" ELSE "fetched"
    /\ html \in IF cmd = "parse-file" THEN {NoMarkup} ELSE RunPages
    /\ siblings = NoSiblings
    /\ db = {}
    /\ prev = NoRun({})
    /\ FetchInit
    /\ RunInit

RunsNext ==
    \/ main_run_once_extract
    \/ main_run_once_persist
    \/ main_parse_file_extract
    \/ main_parse_file_persist
    \/ main_next_run
    \/ worker_job

RunsSpec == RunsInit /\ [][RunsNext]_vars

\* two runs started from the chat, each with its batch reconciled
ConcurrentInit ==
    /\ cmd = "run-once-curl"
    /\ settings = Settings("", {}, FALSE)
    /\ store = EmptyStore
    /\ session = {}
    /\ pc = "concurrent"
    /\ html = NoMarkup
    /\ siblings = NoSiblings
    /\ db = StoredRows
    /\ prev = NoRun(StoredRows)
    /\ FetchInit
    /\ items = <<>> /\ scriptCalls = 0 /\ lenientCalls = 0 /\ sweepCalls = 0
    /\ saved = 0 /\ result = ""
    /\ clock = 1 /\ reply = ""
    /\ text = <<>> /\ fields = NoFields
    /\ target = Target(StartUrl)
    /\ dumps = NoDumpFailure
    /\ \E b1 \in Batches(1), b2 \in Batches(2) : txs = <<Tx(b1), Tx(b2)>>

ConcurrentNext == tx_query \/ tx_flush \/ tx_locked \/ tx_commit

ConcurrentSpec == ConcurrentInit /\ [][ConcurrentNext]_vars

\* the surroundings a run may meet when it writes its debug output
DumpSettings ==
    {[sink |-> k, trash |-> t] : k \in {"none", "ok", "raises"}, t \in {"ok", "failing"}}

\* run-once with either client, in every surrounding
DumpInit ==
    /\ cmd \in {"run-once-curl", "run-once-playwright"}
    /\ settings = Settings(PinnedUA, {}, FALSE)
    /\ store = EmptyStore
    /\ session = {}
    /\ pc = IF cmd = "run-once-curl" THEN "curl" ELSE "pw_open"
    /\ html = NoMarkup
    /\ siblings = NoSiblings
    /\ db = StoredRows
    /\ prev = NoRun(StoredRows)
    /\ FetchInit
    /\ items = <<>> /\ scriptCalls = 0 /\ lenientCalls = 0 /\ sweepCalls = 0
    /\ saved = 0 /\ result = ""
    /\ clock = 1 /\ reply = ""
    /\ text = <<>> /\ fields = NoFields
    /\ target = Target(StartUrl)
    /\ dumps \in DumpSettings
    /\ txs = <<>>

DumpNext ==
    \/ CurlClient_get
    \/ CurlClient_get_raises
    \/ PlaywrightClient_get_open
    \/ PlaywrightClient_get_wait
    \/ PlaywrightClient_get_challenge
    \/ PlaywrightClient_get_finish
    \/ main_fetch_failed
    \/ main_run_once_extract
    \/ main_run_once_persist
    \/ on_run_parser

DumpSpec == DumpInit /\ [][DumpNext]_vars

\* the chat: url changes and runs, one handler at a time
BotInit ==
    /\ cmd = "run-once-curl"
    /\ settings = Settings("", {}, FALSE)
    /\ store = EmptyStore
    /\ session = {}
    /\ pc = "idle"
    /\ html = NoMarkup
    /\ siblings = NoSiblings
    /\ db = {}
    /\ prev = NoRun({})
    /\ FetchInit
    /\ items = <<>> /\ scriptCalls = 0 /\ lenientCalls = 0 /\ sweepCalls = 0
    /\ saved = 0 /\ result = ""
    /\ clock = 1 /\ reply = ""
    /\ text = <<>> /\ fields = NoFields
    /\ target \in {Target(StartUrl), Target(EmptyUrl)}
    /\ dumps = NoDumpFailure
    /\ txs = <<>>

BotNext ==
    \/ handle_url_input
    \/ on_run_parser_start
    \/ main_run_once_extract
    \/ main_run_once_persist
    \/ on_run_parser

BotSpec == BotInit /\ [][BotNext]_vars

\* the client states the inline-state heuristic is run on
MaxBlobs == 2
Group(key, value) == JDict(<<Entry("type", JStr("group")), Entry(key, value)>>)
StateValues ==
    {JDict(<<Entry("items", JList(<<Listing("Flat", UrlA_root)>>))>>),
     JDict(<<Entry("catalog", JDict(<<Entry("Items", JList(<<Listing("Room", UrlB), JStr("x")>>))>>))>>),
     JDict(<<Entry("list", JDict(<<Entry("docs", JList(<<Listing("Flat", UrlA)>>))>>))>>),
     JList(<<Group("items", JList(<<Listing("", EmptyUrl)>>)), Group("docs", JList(<<Listing("Den", EmptyUrl)>>))>>),
     JDict(<<Entry("items", JList(<<Group("list", JList(<<Listing("Room", UrlB)>>))>>))>>),
     JDict(<<Entry("total", JStr("2"))>>)}
Blobs == {Blob(FALSE, JNull)} \cup {Blob(TRUE, v) : v \in StateValues}
StateMarkups ==
    {Markup(Doc(<<>>, <<>>, <<>>, b, st), Doc(<<>>, <<>>, <<>>, b, st), <<>>) :
        b \in SeqsUpTo({BadBlock, GraphB}, 1), st \in SeqsUpTo(Blobs, MaxBlobs)}

\* extract_all and the reconciliation on the pages that carry client state
StateInit ==
    /\ cmd = "run-once-curl"
    /\ settings = Settings("", {}, FALSE)
    /\ store = EmptyStore
    /\ session = {}
    /\ pc = "fetched"
    /\ html \in StateMarkups
    /\ siblings = NoSiblings
    /\ db = {}
    /\ prev = NoRun({})
    /\ FetchInit
    /\ RunInit

StateNext == main_run_once_extract \/ main_run_once_persist

StateSpec == StateInit /\ [][StateNext]_vars

\* the anchors and the lengths the sweep is run on
MaxAnchors == 3
SweepTitles == {"Flat", "Room", "ab", "Podrobnee"}
SweepAnchors == {Anchor(t, h) : t \in SweepTitles, h \in {UrlA_root, UrlA, UrlB}}
SweepMarkups == {Markup(EmptyDoc, EmptyDoc, raw) : raw \in SeqsUpTo(SweepAnchors, MaxAnchors)}

\* a call of _fallback_regex_sweep on the content of a file
fallback_regex_sweep_call ==
    /\ pc = "sweep"
    /\ items' = fallback_regex_sweep(html.raw)
    /\ sweepCalls' = sweepCalls + 1
    /\ pc' = "swept"
    /\ UNCHANGED <<cmd, configVars, fetchVars, html, siblings, scriptCalls, lenientCalls, db, saved,
                   result, historyVars>>

SweepInit ==
    /\ cmd = "parse-file"
    /\ settings = Settings("", {}, FALSE)
    /\ store = EmptyStore
    /\ session = {}
    /\ pc = "sweep"
    /\ html \in SweepMarkups
    /\ siblings = NoSiblings
    /\ db = {}
    /\ prev = NoRun({})
    /\ FetchInit
    /\ RunInit

SweepNext == fallback_regex_sweep_call

SweepSpec == SweepInit /\ [][SweepNext]_vars

\* the texts the normalisation is run on: every text up to MaxText
\* characters, and the two texts of the card of a listing
MaxText == 4
TextChars == {"4", "5", "0", " ", "rub", "%", "Komissiya", "Zalog"}
PriceExample == <<"4", "5", " ", "0", "0", "0", " ", "rub", " ">>
CommissionExample == <<"Komissiya", " ", "5", "0", "%">>
Texts == SeqsUpTo(TextChars, MaxText) \cup {PriceExample, CommissionExample}

\* the price and params steps of extract_from_soup on one card
extract_from_soup_fields ==
    /\ pc = "card"
    /\ fields' = card_fields(text)
    /\ pc' = "card_done"
    /\ UNCHANGED <<cmd, settings, text, target, dumps, txs, fetchVars, html, siblings, extractVars, db, saved,
                   result, historyVars>>

NormalizeInit ==
    /\ cmd = "run-once-curl"
    /\ settings = Settings("", {}, FALSE)
    /\ store = EmptyStore
    /\ session = {}
    /\ pc = "card"
    /\ html = NoMarkup
    /\ siblings = NoSiblings
    /\ db = {}
    /\ prev = NoRun({})
    /\ FetchInit
    /\ items = <<>> /\ scriptCalls = 0 /\ lenientCalls = 0 /\ sweepCalls = 0
    /\ saved = 0 /\ result = ""
    /\ clock = 1 /\ reply = ""
    /\ text \in Texts /\ fields = NoFields
    /\ target = Target(StartUrl)
    /\ dumps = NoDumpFailure
    /\ txs = <<>>

NormalizeNext == extract_from_soup_fields

NormalizeSpec == NormalizeInit /\ [][NormalizeNext]_vars

----------------------------------------------------------------------------
(* Properties of CurlClient.get *)

CurlRun == cmd = "run-once-curl"

\* the fetch has returned markup to main
Fetched == pc \in {"fetched", "persist", "done"} /\ failure = ""

\* min(10, 2 ** attempt) for attempt = 1..5, in tenths of a second
BackoffBase == <<20, 40, 80, 100, 100>>

\* C1: when every response has a retryable status, exactly 5 requests are
\* issued and never a 6th, PlaywrightClient.get is then invoked exactly once
\* (and only then), and what it returns is the result of the fetch.
C1_ExhaustionFallsBackOnce ==
    CurlRun =>
        /\ requests <= 5
        /\ browserCalls <= 1
        /\ browserCalls = 1 => (requests = 5 /\ retryable = 5)
        /\ retryable = 5 =>
              /\ requests = 5
              /\ pc # "curl"
              /\ pc = "pw_open" \/ browserCalls = 1
              /\ Fetched => (html = content /\ content # NoMarkup)

C1_Witness ==
    CurlRun /\ retryable = 5 /\ requests = 5 /\ browserCalls = 1
            /\ pc = "fetched" /\ html = content

\* C2: k retryable statuses (k <= 4) followed by a 200/201: exactly k sleeps,
\* each within [min(10, 2^attempt), min(10, 2^attempt) + 0.5] seconds and no
\* shorter than the one before, no browser fallback, and the body of that
\* response is what the fetch returns.
C2_BackoffThenSuccess ==
    (CurlRun /\ responses >= 1 /\ SuccessStatus(lastStatus)) =>
        /\ responses <= 5
        /\ Len(sleeps) = responses - 1
        /\ retryable = responses - 1
        /\ \A i \in 1..Len(sleeps) :
              sleeps[i] >= BackoffBase[i] /\ sleeps[i] <= BackoffBase[i] + 5
        /\ \A i \in 1..(Len(sleeps) - 1) : sleeps[i] <= sleeps[i + 1]
        /\ browserCalls = 0
        /\ Fetched
        /\ html = lastBody /\ lastBody \in Pages

C2_Witness ==
    CurlRun /\ responses = 5 /\ lastStatus = 200 /\ Len(sleeps) = 4
            /\ sleeps[4] > 100 /\ Fetched /\ html = PageCardLd

\* a response that is neither a success nor a retryable status
OtherStatus == responses >= 1 /\ ~SuccessStatus(lastStatus) /\ ~RetryStatus(lastStatus)

\* that attempt made no sleep, no further request and no browser call
NothingAfterAttempt ==
    /\ Len(sleeps) = responses - 1
    /\ requests = responses
    /\ pc # "curl"
    /\ browserCalls = 0

\* C3 as stated: every status that is neither 200/201 nor 403/429/503 makes
\* the fetch raise on that attempt, with no body returned.
C3_Original ==
    (CurlRun /\ OtherStatus) =>
        /\ failure = "HTTPError"
        /\ html = NoMarkup
        /\ NothingAfterAttempt

\* C3, amended: an error status (>= 400) other than 403/429/503 makes the
\* fetch raise on that attempt: no body, no further request, no sleep, no
\* browser; any other status that is not 200/201 (204, 3xx) returns the
\* body of that response on that attempt, likewise without retry.
C3_ErrorStatusRaises ==
    (CurlRun /\ OtherStatus) =>
        /\ NothingAfterAttempt
        /\ lastStatus >= 400 => (failure = "HTTPError" /\ html = NoMarkup /\ ~Fetched)
        /\ lastStatus < 400 => (Fetched /\ html = lastBody /\ lastBody \in Pages)

C3_Witness ==
    CurlRun /\ responses = 2 /\ lastStatus = 500 /\ failure = "HTTPError"
            /\ result = "failed" /\ html = NoMarkup

\* C4 as stated: two consecutive attempts separated by a retryable failure
\* never use the same user-agent, unless the list has exactly one entry.
C4_Original ==
    (CurlRun /\ Len(uas) = 2 /\ uas[1] # NoUA) =>
        (uas[1] # uas[2] \/ Cardinality(settings.ua_list) = 1)

\* C4, amended: every attempt uses the configured user-agent when one is
\* set, otherwise an entry of the loaded list picked independently of the
\* attempt before (none when the list is empty); two consecutive attempts
\* may use the same one.
C4_IdentityFromPool ==
    CurlRun =>
        \A i \in 1..Len(uas) :
            /\ settings.user_agent # "" => uas[i] = settings.user_agent
            /\ (settings.user_agent = "" /\ settings.ua_list # {}) => uas[i] \in settings.ua_list
            /\ (settings.user_agent = "" /\ settings.ua_list = {}) => uas[i] = NoUA

C4_Witness ==
    CurlRun /\ settings.user_agent = "" /\ settings.ua_list = UserAgents
            /\ retryable >= 1 /\ requests >= 2 /\ uas = <<"ua1", "ua1">>

\* C5: once an attempt has received a response (whatever its status), the
\* cookie file holds exactly the session's cookie set, from before the
\* attempt returns, sleeps or raises until the browser client rewrites it.
C5_StoreFollowsSession ==
    (CurlRun /\ responses >= 1 /\ content = NoMarkup) =>
        store = [cookies |-> {}, cookie_dict |-> session]

C5_Witness ==
    CurlRun /\ responses >= 2 /\ RetryStatus(lastStatus) /\ session = {"ft"}
            /\ store.cookie_dict = {"ft"} /\ pc = "curl"

----------------------------------------------------------------------------
(* Properties of PlaywrightClient.get *)

\* the browser session has navigated and has not yet rewritten the cookie file
Navigated ==
    browserCalls = 1 /\ content = NoMarkup /\ pc \in {"pw_wait", "pw_challenge", "pw_finish"}

\* C6: the browser session holds the previously persisted cookie set before
\* page.goto, whichever client persisted it; as the exhaustion fallback it
\* holds the cookies CurlClient.get saved on its last attempt.
C6_FallbackRestoresCookies ==
    (CurlRun /\ Navigated) => restored = session

\* C7: after navigation, when neither the item-title marker nor the catalog
\* container marker appears before the timeout, the fetch does not raise and
\* goes on to return the page's markup.
C7_MissingMarkersNotFatal ==
    (markers.waited /\ ~markers.title /\ ~markers.container) =>
        (failure = "" /\ pc # "fetch_failed")

\* C8: whatever the outcome of the challenge step (no widget, detection
\* error, no credential, unsolved, solver call failing, injection failing),
\* the fetch does not raise and returns the rendered markup.
C8_ChallengeNotFatal ==
    challenge # "none" => (failure = "" /\ pc # "fetch_failed")

----------------------------------------------------------------------------
(* Properties of the extraction pipeline *)

CandidateUrls(its) == {its[i].url : i \in 1..Len(its)}

\* extract_all has returned
Extracted == pc = "persist" \/ (pc = "done" /\ result = "saved")

\* C9: the structured-data tier is invoked on every extract_all call, however
\* many candidates tier 1 produced, and the result is tier 1's candidates
\* followed by all of tier 2's, in order.
C9_TiersAdditive ==
    /\ pc \in {"persist", "done"} => scriptCalls = 1
    /\ Extracted =>
          items = tier1_cards(html) \o extract_from_scripts(html.strict).items

\* a structural card for url A and a structured-data script for url B
C9_Witness ==
    /\ pc = "persist"
    /\ Len(html.strict.primary) = 1 /\ html.strict.ld = <<GraphB>>
    /\ CandidateUrls(tier1_cards(html)) = {UrlA}
    /\ CandidateUrls(extract_from_scripts(html.strict).items) = {UrlB}
    /\ CandidateUrls(items) = {UrlA, UrlB}
    /\ items[1].url = UrlA /\ items[Len(items)].url = UrlB

\* what parse-file has in hand before its last fallback: the candidates of
\* the html file, of page_pretty.html, of scripts.json and of page.txt
BeforeSweep ==
    IF cmd = "parse-file" THEN before_sweep(html, siblings) ELSE extract_all(html).items

\* C10: in a run (run-once as well as parse-file), when tiers 1 and 2 leave
\* no candidate the regex sweep is invoked on the raw markup and its
\* candidates are the ones reconciled; when they leave at least one, the
\* sweep is not invoked.
C10_SweepIsLastResort ==
    pc = "persist" =>
        IF BeforeSweep = <<>>
        THEN sweepCalls = 1 /\ items = fallback_regex_sweep(html.raw)
        ELSE sweepCalls = 0 /\ items = BeforeSweep

----------------------------------------------------------------------------
(* Properties of the reconciliation and of the table *)

\* the run has committed its batch
Saved == pc = "done" /\ result = "saved"

\* the positions of the candidates for url u, and those that carry an image
Positions(its, u) == {i \in 1..Len(its) : its[i].url = u}
WithImage(its, u) == {i \in Positions(its, u) : its[i].images # <<>>}

Least(S) == CHOOSE i \in S : \A j \in S : i <= j

\* the candidate the precedence rule names for url u
Preferred(its, u) ==
    its[Least(IF WithImage(its, u) # {} THEN WithImage(its, u) ELSE Positions(its, u))]

\* C11: for every url occurring in the batch exactly one candidate is kept,
\* and it is the earliest candidate for that url having an image when one
\* has, otherwise the earliest candidate for that url.
C11_ImageBearingEarliestWins ==
    Saved =>
        /\ saved = Cardinality(CandidateUrls(items) \ {EmptyUrl})
        /\ \A u \in CandidateUrls(items) \ {EmptyUrl} :
              /\ Cardinality({r \in db : r.url = u}) = 1
              /\ \E r \in db : Fields(r) = Preferred(items, u)

\* a candidate without image arrives first, one with an image later, and
\* the later one is the row
C11_Witness ==
    /\ Saved
    /\ \E i, j \in 1..Len(items) :
          /\ i < j /\ items[i].url = items[j].url /\ items[i].url # EmptyUrl
          /\ items[i].images = <<>> /\ items[j].images # <<>>
          /\ \A k \in 1..(j - 1) : items[k].url = items[j].url => items[k].images = <<>>
          /\ \E r \in db : Fields(r) = items[j]

\* C12: after any sequence of runs (run-once, parse-file, scheduler job) no
\* two rows of the table have the same url and no row has an absent or empty
\* url.
C12_UrlUniqueNeverEmpty ==
    /\ \A r \in db : r.url # EmptyUrl
    /\ \A r1, r2 \in db : r1.url = r2.url => r1 = r2

\* a third run whose batch holds a candidate without url and a url an
\* earlier run saved, after a scheduler job
C12_Witness ==
    /\ Saved /\ clock = 3
    /\ \E i \in 1..Len(items) : items[i].url = EmptyUrl
    /\ \E r \in db : r.url = SiteRoot
    /\ \E r \in db : r.url = UrlB /\ r.created_at < clock
    /\ Cardinality(db) = 3

\* this run and the one before it both committed the same candidates
SameBatchTwice == Saved /\ prev.result = "saved" /\ prev.items = items

\* C13: reconciling and persisting the same candidate set twice leaves
\* exactly one row per distinct url, with the field values the first run
\* left and the created_at the first run set.
C13_IdempotentUpsert ==
    SameBatchTwice =>
        /\ {Fields(r) : r \in db} = {Fields(r) : r \in prev.db}
        /\ \A r \in db : \E q \in prev.db : q.url = r.url /\ q.created_at = r.created_at
        /\ \A u \in CandidateUrls(items) \ {EmptyUrl} :
              Cardinality({r \in db : r.url = u}) = 1

\* the second of two runs on the page with a card and a structured-data
\* offer: both rows date from the first
C13_Witness ==
    /\ SameBatchTwice
    /\ clock = 2
    /\ CandidateUrls(items) = {UrlA, UrlB}
    /\ Cardinality(db) = 2
    /\ \A r \in db : r.created_at = 1

\* C14: every write of a record whose url is already in the table, a write
\* of identical field values included, strictly advances the row's
\* updated_at.
C14_UpdatedAtAdvances ==
    Saved =>
        \A i \in 1..Len(items) : \A q \in prev.db :
            q.url = items[i].url =>
                \E r \in db : r.url = q.url /\ r.updated_at > q.updated_at

----------------------------------------------------------------------------
(* Properties of a run's failures *)

\* C15: when persisting the k-th record of a batch fails (k >= 2), the k-1
\* records written before it are in the table, and the failure is
\* propagated to the caller of the run.
C15_EarlierWritesSurvive ==
    (result = "persist_failed" /\ saved >= 1) =>
        /\ \A i \in 1..saved : \E r \in db : Fields(r) = reconcile(items)[i]
        /\ main_exit(result) = "raised"

\* the run failed: the fetch raised, the extraction raised, or the
\* persistence raised
RunFailed == pc = "done" /\ result \in {"failed", "persist_failed"}

\* C16: whenever a run fails, its caller, the chat handler that started it
\* included, receives a failure outcome and never the success reply.
C16_NoFailureAsSuccess ==
    RunFailed => reply # "Parsing done"

\* C17: when the fetch raises (CurlClient.get on a non-retryable status or
\* a failed request, PlaywrightClient.get on any of its steps) the run
\* extracts nothing, writes nothing, and leaves the table as it found it.
C17_FetchFailureAborts ==
    failure # "" =>
        /\ pc \in {"fetch_failed", "done"}
        /\ pc = "done" => result = "failed"
        /\ html = NoMarkup
        /\ items = <<>> /\ scriptCalls = 0 /\ sweepCalls = 0
        /\ saved = 0
        /\ db = prev.db

\* the browser fallback timed out on its markers after five refusals
C17_Witness ==
    /\ CurlRun /\ retryable = 5 /\ browserCalls = 1
    /\ failure = "TimeoutError"
    /\ pc = "done" /\ result = "failed"
    /\ scriptCalls = 0 /\ db = StoredRows

----------------------------------------------------------------------------
(* Properties of the candidates extract_all returns *)

NoDuplicates(seq) == \A i, j \in 1..Len(seq) : i # j => seq[i] # seq[j]

\* C18: the images of every candidate extract_all returns, from any tier,
\* hold no entry twice, also when two references differ only before
\* normalisation or a structured-data image list repeats an entry.
C18_ImagesDistinct ==
    Extracted => \A i \in 1..Len(items) : NoDuplicates(items[i].images)

\* a url with a scheme and a host
IsAbsolute(u) == u.scheme # "" /\ u.host # ""

\* C19: the url and every image of every candidate extract_all returns are
\* in absolute form, in every tier and mapping path.
C19_UrlsAbsolute ==
    Extracted =>
        \A i \in 1..Len(items) :
            /\ items[i].url # EmptyUrl => IsAbsolute(items[i].url)
            /\ \A j \in 1..Len(items[i].images) : IsAbsolute(items[i].images[j])

\* neither a title nor a url
Blank(c) == c.title = "" /\ c.url = EmptyUrl

\* C20: no candidate of any tier (cards, bare links, structured data, inline
\* state, regex sweep) lacks both title and url: none is returned by
\* extract_all or by the sweep, so none reaches the reconciliation.
C20_TitleOrUrl ==
    /\ Extracted => \A i \in 1..Len(items) : ~Blank(items[i])
    /\ \A c \in Range(fallback_regex_sweep(html.raw)) : ~Blank(c)

\* a card without a title link and a structured-data object without name
\* and url were dropped, the card and the offer next to them were kept; of
\* three anchors the sweep keeps the one with a title of its own
C20_Witness ==
    /\ pc = "persist"
    /\ Len(html.strict.primary) = 2
    /\ html.strict.primary[1] = CardNode(NoAnchor, <<>>)
    /\ html.strict.primary[2].a.present
    /\ html.strict.ld = <<GraphB>>
    /\ Len(items) = 2
    /\ Len(html.raw) = 3
    /\ Len(fallback_regex_sweep(html.raw)) = 1

----------------------------------------------------------------------------
(* Properties of the structured-data tier *)

\* the candidates of the blocks that are well formed, block by block
GoodBlockCandidates(blocks) ==
    Flatten([i \in 1..Len(blocks) |->
                IF blocks[i].kind = "bad" \/ blocks[i] = TypeBlock
                THEN <<>> ELSE block_candidates(blocks[i])])

\* C21: when one structured-data block of the page is bad (unparseable, or
\* parseable with a field of an unexpected type such as a non-string url),
\* the scan does not raise and the candidates of every other block are
\* returned.
C21_BadBlockIsolated ==
    pc \in {"persist", "done"} =>
        /\ result # "failed"
        /\ \A c \in Range(GoodBlockCandidates(html.strict.ld)) : c \in Range(items)

----------------------------------------------------------------------------
(* Properties of a request that raises *)

\* C28: when the HTTP request itself raises in CurlClient.get, the exception
\* leaves the method at once: that attempt saves no cookies, no further
\* attempt is made, nothing is slept and the browser is not started; the
\* browser is reached only through five retryable statuses.
C28_RequestErrorPropagates ==
    CurlRun =>
        /\ failure = "RequestError" =>
              /\ requests = responses + 1
              /\ retryable = responses /\ Len(sleeps) = responses
              /\ browserCalls = 0 /\ html = NoMarkup
              /\ pc \in {"fetch_failed", "done"}
              /\ IF responses = 0
                 THEN store \in InitialStores /\ session = CurlClient_init(store)
                 ELSE store = CookieStore_save([cookie_dict |-> session])
        /\ browserCalls >= 1 => (retryable = 5 /\ responses = 5 /\ requests = 5)

C28_Witness ==
    CurlRun /\ failure = "RequestError" /\ responses = 2 /\ requests = 3
            /\ Len(sleeps) = 2 /\ session # {} /\ result = "failed"

----------------------------------------------------------------------------
(* Properties of the upsert across runs *)

\* C29: the upsert overwrites unconditionally across runs: a row whose url
\* is in the committed batch holds exactly the fields of the batch's winner,
\* an empty image list included, whatever the row held before; the image
\* precedence decides among the candidates of the batch only.  Rows of other
\* urls keep their fields.
C29_OverwriteAcrossRuns ==
    Saved =>
        \A q \in prev.db :
            \E r \in db :
                /\ r.url = q.url
                /\ Fields(r) = IF q.url \in CandidateUrls(items)
                               THEN Preferred(items, q.url) ELSE Fields(q)

\* a stored row with images is rewritten by a later batch whose winner has
\* none
C29_Witness ==
    /\ Saved
    /\ \E q \in prev.db : \E r \in db :
          /\ q.images # <<>> /\ r.url = q.url /\ r.images = <<>>
          /\ r.url \in CandidateUrls(items)

----------------------------------------------------------------------------
(* Properties of the regex sweep *)

\* the sweep has run on the anchors of html.raw
Swept == pc = "swept" /\ sweepCalls = 1

\* a recovered title the sweep must not emit
Junk(t) == Len(t) < 3 \/ t \in {"podrobnee", "Podrobnee"}

\* the positions of the anchors that resolve to url u, and the usable ones
AnchorsOf(raw, u) == {i \in 1..Len(raw) : resolve_url(raw[i].href) = u}
UsableOf(raw, u) == {i \in AnchorsOf(raw, u) : ~Junk(raw[i].title)}

\* no url twice, no junk title
SweepClean ==
    /\ \A i, j \in 1..Len(items) : items[i].url = items[j].url => i = j
    /\ \A i \in 1..Len(items) : ~Junk(items[i].title)

\* C26 as stated: the output has no url twice and no junk title, and the
\* candidate kept for a url is the first anchor with that url in document
\* order, the kept candidates standing in the order of those anchors.
C26_Original ==
    Swept =>
        /\ SweepClean
        /\ \A k \in 1..Len(items) :
              items[k].title = html.raw[Least(AnchorsOf(html.raw, items[k].url))].title
        /\ \A k, l \in 1..Len(items) :
              k < l => Least(AnchorsOf(html.raw, items[k].url))
                         < Least(AnchorsOf(html.raw, items[l].url))

\* C26, amended: the output has no url twice and no junk title; it has a
\* candidate for exactly the urls that have an anchor with a usable title,
\* the candidate kept is the first such anchor in document order (anchors
\* before it whose title is too short or the read-more label are passed
\* over), and the kept candidates stand in the order of those anchors.
C26_FirstUsableAnchorKept ==
    Swept =>
        /\ SweepClean
        /\ {items[k].url : k \in 1..Len(items)}
              = {resolve_url(html.raw[i].href) :
                    i \in {j \in 1..Len(html.raw) : ~Junk(html.raw[j].title)}}
        /\ \A k \in 1..Len(items) :
              items[k].title = html.raw[Least(UsableOf(html.raw, items[k].url))].title
        /\ \A k, l \in 1..Len(items) :
              k < l => Least(UsableOf(html.raw, items[k].url))
                         < Least(UsableOf(html.raw, items[l].url))

\* three anchors, two urls: the read-more link of a listing comes before
\* its title link, which is the one kept; a relative and an absolute href
\* of one listing count as one url
C26_Witness ==
    /\ Swept
    /\ html.raw = <<Anchor("Podrobnee", UrlB), Anchor("Room", UrlB), Anchor("Flat", UrlA_root)>>
    /\ items = <<Candidate("Room", UrlB, <<>>), Candidate("Flat", UrlA, <<>>)>>

----------------------------------------------------------------------------
(* Properties of the field normalisation *)

\* the card's texts have been normalised
Normalized == pc = "card_done"

\* the digit characters of a text, in order
DigitsOf(t) == SelectSeq(t, LAMBDA ch : ch \in Range(DigitChars))

RECURSIVE Pow10(_)
Pow10(n) == IF n = 0 THEN 1 ELSE 10 * Pow10(n - 1)

\* the n-digit decimal expansion of v
Expansion(v, n) == [k \in 1..n |-> DigitChars[((v \div Pow10(n - k)) % 10) + 1]]

\* v is the integer that the digit string ds spells
Spells(ds, v) == v >= 0 /\ v < Pow10(Len(ds)) /\ Expansion(v, Len(ds)) = ds

\* the maximal runs of digits of a text, as pairs of first and last position
DigitRuns(t) ==
    {r \in (1..Len(t)) \X (1..Len(t)) :
        /\ r[1] <= r[2]
        /\ \A k \in r[1]..r[2] : t[k] \in Range(DigitChars)
        /\ (r[1] = 1 \/ t[r[1] - 1] \notin Range(DigitChars))
        /\ (r[2] = Len(t) \/ t[r[2] + 1] \notin Range(DigitChars))}

\* the runs directly followed by a percent sign
PercentRuns(t) == {r \in DigitRuns(t) : r[2] < Len(t) /\ t[r[2] + 1] = "%"}

\* the runs that follow the commission word, whitespace apart
KeywordRuns(t) ==
    {r \in DigitRuns(t) :
        \E k \in 1..(r[1] - 1) :
            /\ t[k] \in {"Komissiya", "komissiya"}
            /\ \A j \in (k + 1)..(r[1] - 1) : t[j] = " "}

\* the run of a non-empty set of runs that starts first
FirstRun(R) == CHOOSE r \in R : \A q \in R : r[1] <= q[1]

\* C23: price_value, and bail_value of a bail part, is the integer that the
\* digit characters of the raw text spell in order, absent when the text has
\* no digit; the commission value of a commission part is the integer
\* directly before a percent sign, else the integer that follows the
\* commission word, absent when there is neither.
C23_FieldNormalization ==
    Normalized =>
        /\ IF DigitsOf(text) = <<>>
           THEN fields.price_value = None
           ELSE Spells(DigitsOf(text), fields.price_value)
        /\ fields.bail_raw # <<>> =>
              IF DigitsOf(fields.bail_raw) = <<>>
              THEN fields.bail_value = None
              ELSE Spells(DigitsOf(fields.bail_raw), fields.bail_value)
        /\ fields.commission_raw # <<>> =>
              LET raw == fields.commission_raw
                  R   == IF PercentRuns(raw) # {} THEN PercentRuns(raw) ELSE KeywordRuns(raw)
              IN  IF R = {}
                  THEN fields.commission = None
                  ELSE Spells(SubSeq(raw, FirstRun(R)[1], FirstRun(R)[2]), fields.commission)

\* the price text "45 000 rub " gives 45000
C23_Witness ==
    /\ Normalized
    /\ text = PriceExample
    /\ fields.price_value = 45000

----------------------------------------------------------------------------
(* Properties of the tiers of extract_all *)

\* C24: extract_all runs the lenient pass exactly when the strict pass finds
\* no card node: with no card node it runs even if the strict pass recovered
\* candidates from bare title links, and with at least one card node it does
\* not run.
C24_LenientIffNoCardNodes ==
    (pc \in {"persist", "done"} /\ scriptCalls = 1) =>
        (lenientCalls = 1 <=> select_card_nodes(html.strict) = <<>>)

\* every element of every list that stands, at any depth, under a key named
\* items, list or docs
RECURSIVE Listed(_)
Listed(node) ==
    IF node.kind = "dict"
    THEN Flatten([i \in 1..Len(node.entries) |->
                    (IF node.entries[i].key \in {"items", "Items", "list", "docs"}
                        /\ node.entries[i].value.kind = "list"
                     THEN node.entries[i].value.elems ELSE <<>>)
                    \o Listed(node.entries[i].value)])
    ELSE IF node.kind = "list"
    THEN Flatten([i \in 1..Len(node.elems) |-> Listed(node.elems[i])])
    ELSE <<>>

\* the listed elements of a state that have a title or a url, as candidates
ListedCandidates(state) ==
    {Candidate(e.entries[1].value.str, resolve_url(e.entries[2].value.url), <<>>) :
        e \in {x \in Range(Listed(state)) :
                  /\ x.kind = "dict" /\ x.entries[1].key = "title"
                  /\ (x.entries[1].value.str # "" \/ x.entries[2].value.url # EmptyUrl)}}

\* the states of the page that parse and list a candidate
Listing_blobs(blobs) ==
    {i \in 1..Len(blobs) : blobs[i].parses /\ ListedCandidates(blobs[i].state) # {}}

\* the candidates of the structured-data blocks of the page
LdCandidates == Flatten([i \in 1..Len(html.strict.ld) |-> block_candidates(html.strict.ld[i])])

\* C25: tier 2 scans the inline client state if and only if the
\* structured-data blocks yielded no candidate; when it does, every element
\* with a title or url of every list found at any depth under a key named
\* items, list or docs (in any letter case) is a candidate.  The lists are
\* those of the first state that has such an element.
C25_StateScan ==
    (pc \in {"persist", "done"} /\ scriptCalls = 1 /\ html \in StateMarkups) =>
        IF LdCandidates # <<>>
        THEN items = LdCandidates
        ELSE LET S == Listing_blobs(html.strict.state)
             IN  IF S = {} THEN items = <<>>
                 ELSE Range(items) = ListedCandidates(html.strict.state[Least(S)].state)

----------------------------------------------------------------------------
(* Properties of the chat's target url *)

\* C27: once the chat has accepted a new target url (save_target_url
\* succeeded and the user was told the parser will use it), every run
\* started afterwards in the same process fetches that url, not the one the
\* process was started with.
C27_RunsUseAcceptedUrl ==
    \A i \in 1..Len(target.runs) :
        target.runs[i].accepted # EmptyUrl => target.runs[i].url = target.runs[i].accepted

----------------------------------------------------------------------------
(* Properties of the debug output *)

\* the sink raises, or the Trash directory cannot be written
DumpFailure == dumps.sink = "raises" \/ dumps.trash = "failing"

----------------------------------------------------------------------------
(* Properties of runs that persist at the same time *)

\* both units of work have ended
BothDone == txs # <<>> /\ txs[1].phase = "done" /\ txs[2].phase = "done"

\* both runs looked up one and the same url and found no row
Raced == txs[1].absent \cap txs[2].absent # {}

\* C30: when two runs on one table both look up a url the table lacks
\* before either has committed its insert, exactly one of them commits; the
\* whole batch of the other is rolled back: the table is what the committed
\* run alone makes of the rows it started from, and no row carries what the
\* other run found.
C30_OneCommitsOtherRolledBack ==
    (BothDone /\ Raced) =>
        \E w \in {1, 2} :
            /\ txs[w].result = "saved"
            /\ txs[3 - w].result = "persist_failed"
            /\ db = upsert_all(StoredRows, txs[w].batch, w)
            /\ \A r \in db : r.title # TitleOf(3 - w)

\* run 2 would have rewritten the stored listing and added another one
\* besides the url both runs found absent; run 1 committed, and of run 2
\* nothing is in the table
C30_Witness ==
    /\ BothDone /\ Raced
    /\ txs[1].result = "saved" /\ txs[2].result = "persist_failed"
    /\ {txs[2].batch[k].url : k \in 1..Len(txs[2].batch)} = {UrlA, UrlB}
    /\ txs[2].pos = 2
    /\ {r.url : r \in db} = {UrlA, UrlB, UrlC}
    /\ \E r \in db : r.url = UrlA /\ r.title = "Old"

====
